---- MODULE Spec2Model ----
(***************************************************************************)
(* Model of the scoring and selection core of digest_generator.py:         *)
(* DigestGenerator._score_articles and the selection part of               *)
(* DigestGenerator.generate_digest_html (duplicate removal, featured       *)
(* articles, wildcard picks, categorized remainder).                       *)
(* Around that core: the engagement counts read from the Substack API and  *)
(* from the article page, and the article CSV file that automated_digest   *)
(* saves and, with reuse_csv_data, reads back.                             *)
(*                                                                         *)
(* Python floats are modelled as exact rationals <<num, den>> (den > 0,    *)
(* lowest terms), so equalities below are equalities of real numbers.      *)
(***************************************************************************)
EXTENDS Integers, Sequences, FiniteSets, TLC

VARIABLES
    articles,           \* self.articles
    none_counts,        \* the <<index, field>> whose engagement count is None
    csv_file,           \* the rows of the article CSV file on disk
    reuse_csv_data,     \* argument of automated_digest
    verbose,            \* self.verbose
    use_daily_average,  \* argument of _score_articles
    normalize,          \* argument of _score_articles
    featured_count,     \* argument of generate_digest_html
    include_wildcards,  \* argument of generate_digest_html
    featured,           \* local of generate_digest_html
    wildcards,          \* local of _select_wildcard_picks / generate_digest_html
    wildcard_pool,      \* local of _select_wildcard_picks
    num_wildcards,      \* local of _select_wildcard_picks
    i,                  \* loop counter of _select_wildcard_picks
    author_bound,       \* whether the local name `author` has been assigned
    categorized,        \* local of generate_digest_html
    pc,                 \* position in the run
    exception,          \* the exception that ended the run, or "none"
    newsletters,        \* self.newsletters
    called,             \* the (name, writer_name) given to the last _add_newsletter
    result,             \* what the last call returned
    max_retries,        \* argument of _api_call_retries
    retry_count,        \* local of _api_call_retries
    delay,              \* local of _api_call_retries, in seconds
    statuses,           \* the outcome of each requests.get so far
    sleeps,             \* the argument of each time.sleep so far
    match_authors,      \* argument of _fetch_articles
    max_per_author,     \* argument of _fetch_articles
    newsletter_i,       \* index of the newsletter loop of _fetch_articles
    feed_all,           \* the feed parsed for the current newsletter
    entry_i,            \* index of the entry loop of _fetch_articles
    article_count,      \* local of _fetch_articles
    files,              \* the content of the output files on disk
    writable,           \* the output files that can be opened for writing
    csv_digest_file     \* the name given for the article file, "" for none

\* the state of scoring, selection and the article file
coreVars == <<articles, none_counts, csv_file, reuse_csv_data, verbose,
              use_daily_average, normalize, featured_count,
              include_wildcards, featured, wildcards, wildcard_pool, num_wildcards,
              i, author_bound, categorized, pc, exception>>

fetchVars == <<match_authors, max_per_author, newsletter_i, feed_all, entry_i,
               article_count>>

\* the state of loading the newsletter list, of a web request and of the
\* fetch loop
runVars == <<files, writable, csv_digest_file>>

envVars == <<newsletters, called, result, max_retries, retry_count, delay, statuses,
             sleeps, fetchVars, runVars>>

vars == <<coreVars, envVars>>

retryVars == <<max_retries, retry_count, delay, statuses, sleeps>>

\* a feed without entries
NoFeed == [entries |-> <<>>, dc_creator |-> <<>>]

\* before _fetch_articles is called
InitFetchVars ==
    /\ match_authors = TRUE
    /\ max_per_author = 0
    /\ newsletter_i = 0
    /\ feed_all = NoFeed
    /\ entry_i = 0
    /\ article_count = 0

\* the names of the two output files of a run
OutputFiles == {"output_file", "csv_digest_file"}

\* no output file exists, none is asked for besides the digest page
InitRunVars ==
    /\ files = [f \in OutputFiles |-> "absent"]
    /\ writable = OutputFiles
    /\ csv_digest_file = ""

\* before any newsletter is loaded
InitEnv ==
    /\ InitFetchVars
    /\ InitRunVars
    /\ newsletters = <<>>
    /\ called = <<>>
    /\ result = "none"
    /\ max_retries = 0
    /\ retry_count = 0
    /\ delay = 0
    /\ statuses = <<>>
    /\ sleeps = <<>>

----------------------------------------------------------------------------
(* Bounds of the model *)

MaxScoreArticles == 3

MaxSelectArticles == 4

MaxFeatured == 2

MaxWildcards == 2

MaxRawArticles == 1

MaxDigestArticles == 3

MaxPoolArticles == 12

MaxNewsletters == 3

MaxRetries == 4

\* the most entries in one feed
MaxEntries == 3

\* the largest max_per_author
MaxPerAuthor == 1

----------------------------------------------------------------------------
(* Program constants *)

RESTACK_WEIGHT == 3

COMMENT_WEIGHT == 2

LIKE_WEIGHT == 1

\* 0.05 as a rational
LENGTH_WEIGHT == <<1, 20>>

MAX_RAW_SCORE == 100

\* the breadth factor of the wildcard pool: 10*include_wildcards
POOL_FACTOR == 10

\* seconds
API_INITIAL_RETRY_DELAY == 2

API_RETRY_RAMPUP == 2

----------------------------------------------------------------------------
(* Exact rational arithmetic standing for Python float arithmetic *)

RECURSIVE Gcd(_, _)
Gcd(a, b) == IF b = 0 THEN a ELSE Gcd(b, a % b)

Abs(n) == IF n < 0 THEN -n ELSE n

\* the rational n/d in lowest terms with a positive denominator (d # 0)
Rat(n, d) ==
    LET g == Gcd(Abs(n), Abs(d))
        s == IF d < 0 THEN -1 ELSE 1
    IN  <<(s * n) \div g, (s * d) \div g>>

R(n) == <<n, 1>>

RAdd(x, y) == Rat(x[1] * y[2] + y[1] * x[2], x[2] * y[2])

RSub(x, y) == Rat(x[1] * y[2] - y[1] * x[2], x[2] * y[2])

RMul(x, y) == Rat(x[1] * y[1], x[2] * y[2])

RDiv(x, y) == Rat(x[1] * y[2], x[2] * y[1])

RLe(x, y) == x[1] * y[2] <= y[1] * x[2]

RLt(x, y) == x[1] * y[2] < y[1] * x[2]

\* Python min(x, y) and max(x, y) on two numbers
RMin(x, y) == IF RLt(y, x) THEN y ELSE x

RMax(x, y) == IF RLt(x, y) THEN y ELSE x

\* Python min(list) and max(list) on a non-empty list of numbers
RECURSIVE MinOf(_)
MinOf(s) == IF Len(s) = 1 THEN s[1] ELSE RMin(s[1], MinOf(Tail(s)))

RECURSIVE MaxOf(_)
MaxOf(s) == IF Len(s) = 1 THEN s[1] ELSE RMax(s[1], MaxOf(Tail(s)))

----------------------------------------------------------------------------
(* Articles *)

\* An article dict as built by _fetch_articles / _read_articles_from_csv.
\* age stands for (now - article['published']).days; author names are
\* sequences of characters so that str.strip() can be computed.
Article(t, au, nl, cat, wn, wc, rc, cc, sc, age, raw, score) ==
    [title |-> t, authors |-> au, newsletter_name |-> nl,
     newsletter_category |-> cat, writer_name |-> wn,
     word_count |-> wc, reaction_count |-> rc, comment_count |-> cc,
     restack_count |-> sc, age |-> age, raw_score |-> raw, score |-> score]

\* all sequences over S of length 0..n
SeqUpTo(S, n) == UNION {[1..k -> S] : k \in 0..n}

----------------------------------------------------------------------------
(* _score_articles *)

\* (reaction_count, comment_count, restack_count) of the articles to score
Engagements == {<<0, 0, 0>>, <<10, 0, 0>>, <<20, 0, 10>>, <<0, 50, 0>>, <<200, 0, 0>>}

WordCounts == {0, 2000}

Ages == {0, 2}

\* a freshly fetched article: raw_score and score are still 0.0
Unscored ==
    {Article("t1", <<<<"A">>>>, "n1", "c1", "", wc, e[1], e[2], e[3], age, R(0), R(0)) :
        e \in Engagements, wc \in WordCounts, age \in Ages}

\* days_old = max((now - article['published']).days, 1)
DaysOld(a) == IF a.age > 1 THEN a.age ELSE 1

TotalEngagement(a) ==
    (a.reaction_count * LIKE_WEIGHT) + (a.comment_count * COMMENT_WEIGHT)
        + (a.restack_count * RESTACK_WEIGHT)

\* the engagement divided by the age in both scoring modes
EngagementScoreAlwaysDaily(a, daily) == RDiv(R(TotalEngagement(a)), R(DaysOld(a)))

EngagementScore(a, daily) ==
    IF daily THEN RDiv(R(TotalEngagement(a)), R(DaysOld(a))) ELSE R(TotalEngagement(a))

\* the length counted in whole hundreds of words
LengthScoreWholeHundreds(a) == RMul(R(a.word_count \div 100), LENGTH_WEIGHT)

LengthScore(a) == RMul(RDiv(R(a.word_count), R(100)), LENGTH_WEIGHT)

\* article['raw_score'] = engagement_score + length_score
RawScore(a, daily) == RAdd(EngagementScore(a, daily), LengthScore(a))

WithRawScores(arts, daily) ==
    [k \in 1..Len(arts) |-> [arts[k] EXCEPT !.raw_score = RawScore(arts[k], daily)]]

RawScores(arts) == [k \in 1..Len(arts) |-> arts[k].raw_score]

\* min_score = min(min(raw_scores), MAX_RAW_SCORE)
MinScore(arts) == RMin(MinOf(RawScores(arts)), R(MAX_RAW_SCORE))

\* max_score taken over the raw scores without the cap
MaxScoreUncapped(arts) == MaxOf(RawScores(arts))

\* max_score = min(max(raw_scores), MAX_RAW_SCORE)
MaxScore(arts) == RMin(MaxOf(RawScores(arts)), R(MAX_RAW_SCORE))

\* the score without the cap at MAX_RAW_SCORE
CappedScoreNoCap(a, min_score, score_range, norm) ==
    IF norm
    THEN RAdd(RMul(RDiv(RSub(a.raw_score, min_score), score_range), R(99)), R(1))
    ELSE a.raw_score

\* the normalized score scaled by 100 instead of 99
CappedScoreScale100(a, min_score, score_range, norm) ==
    LET capped_score == RMin(a.raw_score, R(MAX_RAW_SCORE))
    IN  IF norm
        THEN RAdd(RMul(RDiv(RSub(capped_score, min_score), score_range), R(100)), R(1))
        ELSE capped_score

\* the score given to one article when score_range is not 0
CappedScore(a, min_score, score_range, norm) ==
    LET capped_score == RMin(a.raw_score, R(MAX_RAW_SCORE))
    IN  IF norm
        THEN RAdd(RMul(RDiv(RSub(capped_score, min_score), score_range), R(99)), R(1))
        ELSE capped_score

\* the degenerate branch giving MAX_RAW_SCORE instead of its half
WithScoresDegenerateMax(arts, norm) ==
    IF Len(arts) = 0 THEN arts
    ELSE LET min_score == MinScore(arts)
             max_score == MaxScore(arts)
             score_range == RSub(max_score, min_score)
         IN  IF score_range = R(0)
             THEN [k \in 1..Len(arts) |->
                      [arts[k] EXCEPT !.score = R(MAX_RAW_SCORE)]]
             ELSE [k \in 1..Len(arts) |->
                      [arts[k] EXCEPT !.score =
                          CappedScore(arts[k], min_score, score_range, norm)]]

\* the block "if self.articles:" that sets article['score']
WithScores(arts, norm) ==
    IF Len(arts) = 0 THEN arts
    ELSE LET min_score == MinScore(arts)
             max_score == MaxScore(arts)
             score_range == RSub(max_score, min_score)
         IN  IF score_range = R(0)
             THEN [k \in 1..Len(arts) |->
                      [arts[k] EXCEPT !.score = RDiv(R(MAX_RAW_SCORE), R(2))]]
             ELSE [k \in 1..Len(arts) |->
                      [arts[k] EXCEPT !.score =
                          CappedScore(arts[k], min_score, score_range, norm)]]

\* insert a in front of the elements whose key equals a's
InsertDescBeforeTies(a, s) ==
    LET n == Cardinality({k \in 1..Len(s) : RLt(a.raw_score, s[k].raw_score)})
    IN  SubSeq(s, 1, n) \o <<a>> \o SubSeq(s, n + 1, Len(s))

\* insert a behind every element of the descending list s whose key is >= a's
InsertDesc(a, s) ==
    LET n == Cardinality({k \in 1..Len(s) : RLe(a.raw_score, s[k].raw_score)})
    IN  SubSeq(s, 1, n) \o <<a>> \o SubSeq(s, n + 1, Len(s))

\* the collection left in the order it had
SortByRawScoreNoSort(s) == s

\* self.articles.sort(key=lambda x: x['raw_score'], reverse=True): stable
RECURSIVE SortByRawScore(_)
SortByRawScore(s) ==
    IF Len(s) = 0 THEN s
    ELSE InsertDesc(s[Len(s)], SortByRawScore(SubSeq(s, 1, Len(s) - 1)))

InitScore ==
    /\ articles \in SeqUpTo(Unscored, MaxScoreArticles)
    /\ none_counts = {}
    /\ csv_file = <<>>
    /\ reuse_csv_data = FALSE
    /\ verbose = FALSE
    /\ use_daily_average = TRUE
    /\ normalize = TRUE
    /\ featured_count = 0
    /\ include_wildcards = 0
    /\ featured = <<>>
    /\ wildcards = <<>>
    /\ wildcard_pool = <<>>
    /\ num_wildcards = 0
    /\ i = 0
    /\ author_bound = FALSE
    /\ categorized = <<>>
    /\ pc = "fetched"
    /\ exception = "none"
    /\ InitEnv

\* the first article one of whose counts is None
FirstNone == CHOOSE k \in 1..Len(articles) :
    /\ \E f \in {"reaction_count", "comment_count", "restack_count"} :
            <<k, f>> \in none_counts
    /\ \A p \in none_counts : k <= p[1]

\* lines 824-878.  A count that is None makes the products of lines 830-834
\* raise TypeError, after the articles in front of it got their raw_score.
ScoreArticles ==
    /\ pc = "fetched"
    /\ \E daily \in BOOLEAN, norm \in BOOLEAN :
        /\ use_daily_average' = daily
        /\ normalize' = norm
        /\ IF none_counts = {}
           THEN /\ articles' = SortByRawScore(WithScores(WithRawScores(articles, daily), norm))
                /\ pc' = "scored"
                /\ UNCHANGED exception
           ELSE /\ articles' = [k \in 1..Len(articles) |->
                                  IF k < FirstNone
                                  THEN [articles[k] EXCEPT
                                            !.raw_score = RawScore(articles[k], daily)]
                                  ELSE articles[k]]
                /\ pc' = "raised"
                /\ exception' = "TypeError"
    /\ UNCHANGED <<envVars, none_counts, csv_file, reuse_csv_data, verbose, featured_count,
                   include_wildcards, featured,
                   wildcards, wildcard_pool, num_wildcards, i, author_bound,
                   categorized>>

NextScore == ScoreArticles

SpecScore == InitScore /\ [][NextScore]_vars

\* one article at a time over a wider range of inputs: every kind of
\* engagement, short and long texts, future-dated, same-day, one-day-old and
\* older articles
ReactionCounts == {0, 1, 7}

CommentCounts == {0, 1}

RestackCounts == {0, 1}

WordCountsWide == {0, 50, 100, 2000}

AgesWide == {-1, 0, 1, 2, 3}

UnscoredWide ==
    {Article("t1", <<<<"A">>>>, "n1", "c1", "", wc, rc, cc, sc, age, R(0), R(0)) :
        rc \in ReactionCounts, cc \in CommentCounts, sc \in RestackCounts,
        wc \in WordCountsWide, age \in AgesWide}

InitRaw ==
    /\ articles \in SeqUpTo(UnscoredWide, MaxRawArticles)
    /\ none_counts = {}
    /\ csv_file = <<>>
    /\ reuse_csv_data = FALSE
    /\ verbose = FALSE
    /\ use_daily_average = TRUE
    /\ normalize = TRUE
    /\ featured_count = 0
    /\ include_wildcards = 0
    /\ featured = <<>>
    /\ wildcards = <<>>
    /\ wildcard_pool = <<>>
    /\ num_wildcards = 0
    /\ i = 0
    /\ author_bound = FALSE
    /\ categorized = <<>>
    /\ pc = "fetched"
    /\ exception = "none"
    /\ InitEnv

SpecRaw == InitRaw /\ [][NextScore]_vars

----------------------------------------------------------------------------
(* Fetching the engagement counts of one article *)

\* A value of a JSON object member, and what Python holds after reading it:
\* <<"absent", 0>> the member is missing, <<"null", 0>> JSON null / None,
\* <<"int", n>> the number n.
JAbsent == <<"absent", 0>>

JNull == <<"null", 0>>

JInt(n) == <<"int", n>>

PyNone == <<"None", 0>>

PyInt(n) == <<"int", n>>

\* dict.get(key, default)
DictGet(jv, default) ==
    IF jv = JAbsent THEN PyInt(default)
    ELSE IF jv = JNull THEN PyNone
    ELSE PyInt(jv[2])

JsonCounts == {JAbsent, JNull, JInt(0), JInt(4), JInt(-3)}

\* post_data['reactions']: missing, null, a dict with one number, or a dict
\* with one null
JsonReactions == JsonCounts \cup {<<"nullvalue", 0>>}

\* a stat of the interactionStatistic meta tag: no stat of that type, or a
\* stat with the member userInteractionCount as in JsonCounts
HtmlStats == JsonCounts \cup {<<"nostat", 0>>}

\* the number in an aria-label "Like (n)", or no such button
AriaLabels == {JAbsent, JInt(2)}

ApiResponses ==
    [comment_count : JsonCounts, reactions : JsonReactions, restacks : JsonCounts,
     body_words : {0, 50}]

HtmlPages ==
    [like : HtmlStats, comment : HtmlStats, like_label : AriaLabels,
     comment_label : AriaLabels, restack_label : AriaLabels]

\* article[field] = pv on the article a with the set none of its None fields
Assign(st, field, pv) ==
    [a    |-> [st.a EXCEPT ![field] = IF pv = PyNone THEN 0 ELSE pv[2]],
     none |-> IF pv = PyNone THEN st.none \cup {field} ELSE st.none \ {field}]

\* article[field] == 0
EqualsZero(st, field) == field \notin st.none /\ st.a[field] = 0

\* lines 569-588 on a response r; a null inside reactions makes sum() raise,
\* which the handler of line 643 swallows with the rest left undone
ApiMetrics(st, r) ==
    LET s1 == Assign(st, "comment_count", DictGet(r.comment_count, 0))
        s2 == IF r.reactions = JNull THEN s1
              ELSE Assign(s1, "reaction_count",
                          PyInt(IF r.reactions = JAbsent THEN 0 ELSE r.reactions[2]))
        s3 == Assign(s2, "restack_count", DictGet(r.restacks, 0))
    IN  IF r.reactions[1] = "nullvalue" THEN s1
        ELSE IF r.body_words > 0 THEN [s3 EXCEPT !.a.word_count = r.body_words]
        ELSE s3

\* lines 739-776 on a page r
HtmlMetrics(st, r) ==
    LET s1 == IF r.like[1] # "nostat" /\ EqualsZero(st, "reaction_count")
              THEN Assign(st, "reaction_count", DictGet(r.like, 0)) ELSE st
        s2 == IF r.comment[1] # "nostat" /\ EqualsZero(s1, "comment_count")
              THEN Assign(s1, "comment_count", DictGet(r.comment, 0)) ELSE s1
        s3 == IF EqualsZero(s2, "reaction_count") /\ r.like_label # JAbsent
              THEN Assign(s2, "reaction_count", PyInt(r.like_label[2])) ELSE s2
        s4 == IF EqualsZero(s3, "comment_count") /\ r.comment_label # JAbsent
              THEN Assign(s3, "comment_count", PyInt(r.comment_label[2])) ELSE s3
    IN  IF EqualsZero(s4, "restack_count") /\ r.restack_label # JAbsent
        THEN Assign(s4, "restack_count", PyInt(r.restack_label[2])) ELSE s4

\* the article under construction with its None fields
Building == [a |-> articles[1], none |-> {p[2] : p \in none_counts}]

\* the article dict of lines 421-440 for an entry of a feed without content
InitEngage ==
    /\ articles = <<Article("t1", <<<<"A">>>>, "n1", "c1", "", 0, 0, 0, 0, 2, R(0), R(0))>>
    /\ none_counts = {}
    /\ csv_file = <<>>
    /\ reuse_csv_data = FALSE
    /\ verbose = FALSE
    /\ use_daily_average = TRUE
    /\ normalize = TRUE
    /\ featured_count = 0
    /\ include_wildcards = 0
    /\ featured = <<>>
    /\ wildcards = <<>>
    /\ wildcard_pool = <<>>
    /\ num_wildcards = 0
    /\ i = 0
    /\ author_bound = FALSE
    /\ categorized = <<>>
    /\ pc = "entry"
    /\ exception = "none"
    /\ InitEnv

\* lines 454-456 and 539-648: skipped without use_Substack_API, and without
\* effect when the call gets no response; the responses modelled carry no
\* byline, so the author list stays as it is
FetchEngagementApi ==
    /\ pc = "entry"
    /\ \/ UNCHANGED <<articles, none_counts>>
       \/ \E r \in ApiResponses :
            LET st == ApiMetrics(Building, r) IN
            /\ articles' = <<st.a>>
            /\ none_counts' = {<<1, f>> : f \in st.none}
    /\ pc' = "api_done"
    /\ UNCHANGED <<envVars, csv_file, reuse_csv_data, verbose, use_daily_average, normalize,
                   featured_count,
                   include_wildcards, featured, wildcards, wildcard_pool,
                   num_wildcards, i, author_bound, categorized, exception>>

\* lines 461 and 720-785; without a response the article stays as it is
FetchEngagementHtml ==
    /\ pc = "api_done"
    /\ \/ UNCHANGED <<articles, none_counts>>
       \/ \E r \in HtmlPages :
            LET st == HtmlMetrics(Building, r) IN
            /\ articles' = <<st.a>>
            /\ none_counts' = {<<1, f>> : f \in st.none}
    /\ pc' = "fetched"
    /\ UNCHANGED <<envVars, csv_file, reuse_csv_data, verbose, use_daily_average, normalize,
                   featured_count,
                   include_wildcards, featured, wildcards, wildcard_pool,
                   num_wildcards, i, author_bound, categorized, exception>>

NextEngage ==
    \/ FetchEngagementApi
    \/ FetchEngagementHtml
    \/ ScoreArticles

SpecEngage == InitEngage /\ [][NextEngage]_vars

----------------------------------------------------------------------------
(* generate_digest_html: duplicate removal, featured, wildcards, categories *)

\* str.strip() on a name given as a sequence of characters
RECURSIVE LStrip(_)
LStrip(s) == IF Len(s) > 0 /\ s[1] = " " THEN LStrip(Tail(s)) ELSE s

RECURSIVE RStrip(_)
RStrip(s) ==
    IF Len(s) > 0 /\ s[Len(s)] = " " THEN RStrip(SubSeq(s, 1, Len(s) - 1)) ELSE s

Strip(s) == LStrip(RStrip(s))

\* scored articles as they reach generate_digest_html: two articles of one
\* author, one co-authored article fetched once for each of its two writers,
\* single-author articles of three more authors (one of them twice), and an
\* author name carrying a trailing blank
Scored9 == Article("t1", <<<<"A">>>>, "n1", "c1", "", 0, 9, 0, 0, 1, R(9), R(100))

Scored8 == Article("t2", <<<<"A">>>>, "n1", "c1", "", 0, 8, 0, 0, 1, R(8), R(88))

Scored7a == Article("t3", <<<<"A">>, <<"B">>>>, "n2", "c2", "A", 0, 7, 0, 0, 1, R(7), R(76))

Scored7b == Article("t3", <<<<"A">>, <<"B">>>>, "n2", "c2", "B", 0, 7, 0, 0, 1, R(7), R(76))

Scored6 == Article("t4", <<<<"B">>>>, "n2", "c2", "", 0, 6, 0, 0, 1, R(6), R(64))

Scored5 == Article("t5", <<<<"C">>>>, "n3", "c1", "", 0, 5, 0, 0, 1, R(5), R(51))

Scored4 == Article("t6", <<<<"D">>>>, "n3", "c1", "", 0, 4, 0, 0, 1, R(4), R(38))

Scored3 == Article("t7", <<<<"C", " ">>>>, "n3", "c1", "", 0, 3, 0, 0, 1, R(3), R(26))

ScoredUniverse ==
    {Scored9, Scored8, Scored7a, Scored7b, Scored6, Scored5, Scored4, Scored3}

\* list.remove(x): drop the first element equal to x (the caller only removes
\* elements that are in the list)
RECURSIVE RemoveFirst(_, _)
RemoveFirst(s, x) ==
    IF Len(s) = 0 THEN s
    ELSE IF s[1] = x THEN Tail(s)
    ELSE <<s[1]>> \o RemoveFirst(Tail(s), x)

\* for wc in wc_to_remove: pool.remove(wc)
RECURSIVE RemoveEach(_, _)
RemoveEach(pool, victims) ==
    IF Len(victims) = 0 THEN pool
    ELSE RemoveEach(RemoveFirst(pool, victims[1]), Tail(victims))

\* the test looking at the first author only
WrittenByFirstAuthorOnly(wc, author) == Strip(wc.authors[1]) = Strip(author)

\* the co-author test of _remove_author_from_pool
WrittenBy(wc, author) ==
    \E k \in 1..Len(wc.authors) : Strip(wc.authors[k]) = Strip(author)

\* the pool left as it is
RemoveAuthorFromPoolKeepAll(author, pool) == pool

\* _remove_author_from_pool(author, author_type, pool)
RemoveAuthorFromPool(author, pool) ==
    IF Len(author) > 0 /\ Len(pool) > 0
    THEN LET wc_to_remove == SelectSeq(pool, LAMBDA wc : WrittenBy(wc, author))
         IN  RemoveEach(pool, wc_to_remove)
    ELSE pool

\* for author in authors: pool = self._remove_author_from_pool(author, .., pool)
RECURSIVE RemoveAuthorsFromPool(_, _)
RemoveAuthorsFromPool(authors, pool) ==
    IF Len(authors) = 0 THEN pool
    ELSE RemoveAuthorsFromPool(Tail(authors), RemoveAuthorFromPool(authors[1], pool))

\* for article in featured: remove each of its authors from the pool
RECURSIVE RemoveFeaturedAuthors(_, _)
RemoveFeaturedAuthors(feat, pool) ==
    IF Len(feat) = 0 THEN pool
    ELSE RemoveFeaturedAuthors(Tail(feat), RemoveAuthorsFromPool(feat[1].authors, pool))

\* _is_article_in(article, articles_subset)
IsArticleIn(article, articles_subset) ==
    \E k \in 1..Len(articles_subset) :
        /\ article.authors = articles_subset[k].authors
        /\ article.title = articles_subset[k].title
        /\ article.newsletter_name = articles_subset[k].newsletter_name

\* dups_to_remove: every article equal (as a dict) to an earlier one
DupsToRemove(arts) ==
    LET marked == [k \in 1..Len(arts) |->
                      <<arts[k], \E j \in 1..(k - 1) : arts[j] = arts[k]>>]
        dups == SelectSeq(marked, LAMBDA e : e[2])
    IN  [k \in 1..Len(dups) |-> dups[k][1]]

Min2(a, b) == IF a < b THEN a ELSE b

\* self.articles as left by _score_articles, or as read back from the CSV
\* file of an earlier run (in the order of that file)
InitSelect ==
    /\ articles \in SeqUpTo(ScoredUniverse, MaxSelectArticles)
    /\ none_counts = {}
    /\ csv_file = <<>>
    /\ reuse_csv_data = FALSE
    /\ verbose \in BOOLEAN
    /\ use_daily_average = TRUE
    /\ normalize = TRUE
    /\ featured_count \in 0..MaxFeatured
    /\ include_wildcards \in 0..MaxWildcards
    /\ featured = <<>>
    /\ wildcards = <<>>
    /\ wildcard_pool = <<>>
    /\ num_wildcards = 0
    /\ i = 0
    /\ author_bound = FALSE
    /\ categorized = <<>>
    /\ pc = "generate"
    /\ exception = "none"
    /\ InitEnv

Raise(e) ==
    /\ pc' = "raised"
    /\ exception' = e

\* lines 1004-1017: the duplicate scan and the removal loop.  With verbose
\* on, the first duplicate found prints article['newsletter'], a key no
\* article has; with verbose off the removal loop calls articles.remove,
\* and `articles` is a local name that is assigned only at line 1085.
RemoveDuplicates ==
    /\ pc = "generate"
    /\ IF Len(DupsToRemove(articles)) > 0
       THEN Raise(IF verbose THEN "KeyError: newsletter"
                             ELSE "UnboundLocalError: articles")
       ELSE pc' = "featured" /\ UNCHANGED exception
    /\ UNCHANGED <<envVars, articles, none_counts, csv_file, reuse_csv_data, verbose,
                   use_daily_average, normalize, featured_count,
                   include_wildcards, featured, wildcards, wildcard_pool,
                   num_wildcards, i, author_bound, categorized>>

\* lines 1019-1023
SelectFeatured ==
    /\ pc = "featured"
    /\ featured' = IF featured_count > 0
                   THEN SubSeq(articles, 1, Min2(featured_count, Len(articles)))
                   ELSE <<>>
    /\ pc' = "wildcards"
    /\ UNCHANGED <<envVars, articles, none_counts, csv_file, reuse_csv_data, verbose,
                   use_daily_average, normalize, featured_count,
                   include_wildcards, wildcards, wildcard_pool, num_wildcards, i,
                   author_bound, categorized, exception>>

\* the pool taken to be all the articles left
WildcardMaxWholePool(n, articles_minus_featured) == Len(articles_minus_featured)

\* wildcard_max = min(10*include_wildcards, len(articles_minus_featured))
WildcardMax(n, articles_minus_featured) ==
    Min2(POOL_FACTOR * n, Len(articles_minus_featured))

\* the number of picks without the half-pool cap
NumWildcardsUncapped(n, pool) == n

\* num_wildcards = min(include_wildcards, int(len(wildcard_pool)/2))
NumWildcards(n, pool) == Min2(n, Len(pool) \div 2)

\* lines 935-966: _select_wildcard_picks up to the sampling loop
BuildWildcardPool ==
    /\ pc = "wildcards"
    /\ wildcards' = <<>>
    /\ IF ~(include_wildcards > 0 /\ Len(articles) > Len(featured))
       THEN /\ pc' = "categorize"
            /\ UNCHANGED <<wildcard_pool, num_wildcards, i, author_bound>>
       ELSE LET articles_minus_featured == RemoveFeaturedAuthors(featured, articles)
                wildcard_max == WildcardMax(include_wildcards, articles_minus_featured)
            IN  /\ author_bound' = \E k \in 1..Len(featured) : Len(featured[k].authors) > 0
                /\ IF Len(articles_minus_featured) = 0
                   THEN /\ pc' = "categorize"
                        /\ UNCHANGED <<wildcard_pool, num_wildcards, i>>
                   ELSE /\ wildcard_pool' = SubSeq(articles_minus_featured, 1, wildcard_max)
                        /\ num_wildcards' =
                               NumWildcards(include_wildcards,
                                            SubSeq(articles_minus_featured, 1, wildcard_max))
                        /\ i' = 0
                        /\ pc' = "picking"
    /\ UNCHANGED <<envVars, articles, none_counts, csv_file, reuse_csv_data, verbose,
                   use_daily_average, normalize, featured_count,
                   include_wildcards, featured, categorized, exception>>

\* lines 967-981: one turn of the sampling loop, random.choice being any
\* element of the pool.  The verbose message of line 974 reads `author`,
\* which is assigned only by the loops over authors.
PickWildcard ==
    /\ pc = "picking"
    /\ i < num_wildcards /\ Len(wildcard_pool) > 0
    /\ \E c \in 1..Len(wildcard_pool) :
        LET wildcard == wildcard_pool[c]
        IN  IF verbose /\ ~author_bound
            THEN /\ Raise("UnboundLocalError: author")
                 /\ UNCHANGED <<wildcards, wildcard_pool, i, author_bound>>
            ELSE /\ i' = i + 1
                 /\ wildcards' = Append(wildcards, wildcard)
                 /\ wildcard_pool' = RemoveAuthorsFromPool(wildcard.authors,
                                         RemoveFirst(wildcard_pool, wildcard))
                 /\ author_bound' = (author_bound \/ Len(wildcard.authors) > 0)
                 /\ UNCHANGED <<pc, exception>>
    /\ UNCHANGED <<envVars, articles, none_counts, csv_file, reuse_csv_data, verbose,
                   use_daily_average, normalize, featured_count,
                   include_wildcards, featured, num_wildcards, categorized>>

\* lines 967, 983-986: the loop ends and the wildcards are returned
ReturnWildcards ==
    /\ pc = "picking"
    /\ ~(i < num_wildcards /\ Len(wildcard_pool) > 0)
    /\ pc' = "categorize"
    /\ UNCHANGED <<envVars, articles, none_counts, csv_file, reuse_csv_data, verbose,
                   use_daily_average, normalize, featured_count,
                   include_wildcards, featured, wildcards, wildcard_pool,
                   num_wildcards, i, author_bound, categorized, exception>>

\* the remainder that leaves out the featured articles only
RemainingWildcardsKept(arts, feat, wild) ==
    SelectSeq(arts, LAMBDA a : ~IsArticleIn(a, feat))

\* the articles left for the category sections, in collection order
Remaining(arts, feat, wild) ==
    SelectSeq(arts, LAMBDA a : ~IsArticleIn(a, feat) /\ ~IsArticleIn(a, wild))

\* lines 1033-1037: a defaultdict(list) has a key for each category that
\* received an article
Categorized(arts, feat, wild) ==
    LET rest == Remaining(arts, feat, wild)
    IN  [c \in {rest[k].newsletter_category : k \in 1..Len(rest)} |->
            SelectSeq(rest, LAMBDA a : a.newsletter_category = c)]

Categorize ==
    /\ pc = "categorize"
    /\ categorized' = Categorized(articles, featured, wildcards)
    /\ pc' = "done"
    /\ UNCHANGED <<envVars, articles, none_counts, csv_file, reuse_csv_data, verbose,
                   use_daily_average, normalize, featured_count,
                   include_wildcards, featured, wildcards, wildcard_pool,
                   num_wildcards, i, author_bound, exception>>

NextSelect ==
    \/ RemoveDuplicates
    \/ SelectFeatured
    \/ BuildWildcardPool
    \/ PickWildcard
    \/ ReturnWildcards
    \/ Categorize

SpecSelect == InitSelect /\ [][NextSelect]_vars

\* a ranked collection larger than the wildcard pool: n articles of
\* decreasing raw_score, the k-th written by author number k modulo authors
AuthorNames == <<"A", "B", "C", "D", "E", "F", "G", "H", "I", "J", "K", "L", "M", "N">>

Ranked(n, authors) ==
    [k \in 1..n |->
        Article(ToString(k), <<<<AuthorNames[((k - 1) % authors) + 1]>>>>, "n1", "c1", "",
                0, n + 1 - k, 0, 0, 1, R(n + 1 - k), R(n + 1 - k))]

InitPool ==
    /\ \E n \in (MaxPoolArticles - 2)..MaxPoolArticles, authors \in {4, MaxPoolArticles} :
            articles = Ranked(n, authors)
    /\ none_counts = {}
    /\ csv_file = <<>>
    /\ reuse_csv_data = FALSE
    /\ verbose = FALSE
    /\ use_daily_average = FALSE
    /\ normalize = FALSE
    /\ featured_count \in 0..MaxFeatured
    /\ include_wildcards \in 0..MaxWildcards
    /\ featured = <<>>
    /\ wildcards = <<>>
    /\ wildcard_pool = <<>>
    /\ num_wildcards = 0
    /\ i = 0
    /\ author_bound = FALSE
    /\ categorized = <<>>
    /\ pc = "generate"
    /\ exception = "none"
    /\ InitEnv

SpecPool == InitPool /\ [][NextSelect]_vars

----------------------------------------------------------------------------
(* automated_digest: a run that fetches, and a later run that reuses the   *)
(* article CSV file the first one saved                                     *)

\* ' & '.join(article['authors'])
RECURSIVE JoinAuthors(_)
JoinAuthors(authors) ==
    IF Len(authors) = 0 THEN <<>>
    ELSE IF Len(authors) = 1 THEN authors[1]
    ELSE authors[1] \o <<" ", "&", " ">> \o JoinAuthors(Tail(authors))

\* one row of the dataframe; DatePublished is kept as the age in days, the
\* later date being the smaller age
BuildArticleDf(article, writer_name) ==
    [Writer |-> writer_name, DatePublished |-> article.age,
     Category |-> article.newsletter_category,
     Authors |-> JoinAuthors(article.authors),
     ArticleTitle |-> article.title, NewsletterName |-> article.newsletter_name,
     WriterName |-> article.writer_name, Words |-> article.word_count,
     Likes |-> article.reaction_count, Comments |-> article.comment_count,
     Restacks |-> article.restack_count, RawScore |-> article.raw_score,
     Score |-> article.score]

\* the writer names of the model in the order of Python's string comparison
WriterNames == <<"", "A", "B", "C", "nan">>

WriterRank(w) == CHOOSE k \in 1..Len(WriterNames) : WriterNames[k] = w

\* row x sorts in front of row y: Writer ascending, Date Published descending
RowBefore(x, y) ==
    \/ WriterRank(x.Writer) < WriterRank(y.Writer)
    \/ x.Writer = y.Writer /\ x.DatePublished < y.DatePublished

InsertRow(r, s) ==
    LET n == Cardinality({k \in 1..Len(s) : ~RowBefore(r, s[k])})
    IN  SubSeq(s, 1, n) \o <<r>> \o SubSeq(s, n + 1, Len(s))

\* articles_df.sort_values(['Writer', 'Date Published'], ascending=[True, False])
RECURSIVE SortValues(_)
SortValues(rows) ==
    IF Len(rows) = 0 THEN rows
    ELSE InsertRow(rows[Len(rows)], SortValues(SubSeq(rows, 1, Len(rows) - 1)))

\* the rows written for max_per_author, one row per article
CsvRows(arts, per_author) ==
    LET rows == [k \in 1..Len(arts) |-> BuildArticleDf(arts[k], arts[k].writer_name)]
    IN  IF per_author = 1 THEN SortValues(rows) ELSE rows

\* str(cell).strip() of a text cell read by pandas: an empty cell is NaN
StrCell(text) == IF text = "" THEN "nan" ELSE text

StrCellChars(chars) == IF chars = <<>> THEN <<"n", "a", "n">> ELSE Strip(chars)

\* the article dict of lines 1316-1335 for one row
ArticleOfRow(row) ==
    Article(StrCell(row.ArticleTitle), <<StrCellChars(row.Authors)>>,
            StrCell(row.NewsletterName), StrCell(row.Category),
            StrCell(row.WriterName), row.Words, row.Likes, row.Comments,
            row.Restacks, row.DatePublished, row.RawScore, row.Score)

\* articles fetched for different writers and newsletters
Fetched9 == Article("t1", <<<<"B">>>>, "n1", "c1", "B", 0, 9, 0, 0, 1, R(0), R(0))

Fetched7 == Article("t2", <<<<"D">>>>, "n2", "c1", "", 0, 7, 0, 0, 1, R(0), R(0))

Fetched5 == Article("t3", <<<<"A">>>>, "n3", "c2", "A", 0, 5, 0, 0, 1, R(0), R(0))

Fetched2 == Article("t4", <<<<"C">>, <<"A">>>>, "n4", "c2", "C", 2000, 1, 0, 0, 2, R(0), R(0))

FetchedUniverse == {Fetched9, Fetched7, Fetched5, Fetched2}

\* the sequences of 1..n different elements of S
DistinctSeqs(S, n) ==
    {s \in SeqUpTo(S, n) : Len(s) > 0 /\ \A j, k \in 1..Len(s) : j # k => s[j] # s[k]}

\* lines 1482-1507 of a run without reuse_csv_data whose fetch found articles
InitDigest ==
    /\ articles \in DistinctSeqs(FetchedUniverse, MaxDigestArticles)
    /\ none_counts = {}
    /\ csv_file = <<>>
    /\ reuse_csv_data = FALSE
    /\ verbose = FALSE
    /\ use_daily_average = TRUE
    /\ normalize = TRUE
    /\ featured_count \in 1..MaxFeatured
    /\ include_wildcards \in 0..1
    /\ featured = <<>>
    /\ wildcards = <<>>
    /\ wildcard_pool = <<>>
    /\ num_wildcards = 0
    /\ i = 0
    /\ author_bound = FALSE
    /\ categorized = <<>>
    /\ pc = "fetched"
    /\ exception = "none"
    /\ InitEnv

\* lines 1524-1531 and 1393-1460: the file is written unless no file name
\* was given; expand_multiple_authors is off
SaveArticlesToCsv ==
    /\ pc \in {"scored", "read"}
    /\ \/ UNCHANGED csv_file
       \/ \E per_author \in {0, 1} :
            csv_file' = CsvRows(articles, per_author)
    /\ pc' = "generate"
    /\ UNCHANGED <<envVars, articles, none_counts, reuse_csv_data, verbose, use_daily_average,
                   normalize, featured_count, include_wildcards, featured,
                   wildcards, wildcard_pool, num_wildcards, i, author_bound,
                   categorized, exception>>

\* a second run of automated_digest, with reuse_csv_data, on the file that
\* the first run saved
RunWithReuse ==
    /\ pc = "done"
    /\ ~reuse_csv_data
    /\ reuse_csv_data' = TRUE
    /\ articles' = <<>>
    /\ featured' = <<>>
    /\ wildcards' = <<>>
    /\ wildcard_pool' = <<>>
    /\ num_wildcards' = 0
    /\ i' = 0
    /\ author_bound' = FALSE
    /\ categorized' = <<>>
    /\ pc' = "reuse"
    /\ UNCHANGED <<envVars, none_counts, csv_file, verbose, use_daily_average, normalize,
                   featured_count, include_wildcards, exception>>

\* lines 1484-1492 and 1266-1351: the articles are taken from the rows in
\* file order with the scores of the file; a missing or empty file ends the
\* run
ReadArticlesFromCsv ==
    /\ pc = "reuse"
    /\ IF Len(csv_file) < 1
       THEN pc' = "returned" /\ UNCHANGED articles
       ELSE /\ articles' = [k \in 1..Len(csv_file) |-> ArticleOfRow(csv_file[k])]
            /\ pc' = "read"
    /\ UNCHANGED <<envVars, none_counts, csv_file, reuse_csv_data, verbose, use_daily_average,
                   normalize, featured_count, include_wildcards, featured,
                   wildcards, wildcard_pool, num_wildcards, i, author_bound,
                   categorized, exception>>

NextDigest ==
    \/ ScoreArticles
    \/ SaveArticlesToCsv
    \/ RunWithReuse
    \/ ReadArticlesFromCsv
    \/ RemoveDuplicates
    \/ SelectFeatured
    \/ BuildWildcardPool
    \/ PickWildcard
    \/ ReturnWildcards
    \/ Categorize

SpecDigest == InitDigest /\ [][NextDigest]_vars

----------------------------------------------------------------------------
(* Loading the newsletter list *)

\* names as sequences of characters, with and without blanks around them
NewsletterNames == {<<"N">>, <<"M">>, <<"N", " ">>}

WriterNamesGiven == {<<>>, <<"A">>, <<" ", "A">>}

WebsiteUrls == {<<"u">>, <<" ">>}

\* the category and the publisher of a row
RowExtras == {<<<<"c", "1">>, <<>>>>, <<<<"c", "2">>, <<"P">>>>}

\* rss_url for a website_url that does not start with 'http'
RssUrl(website_url) == <<"https://">> \o website_url \o <<"/feed">>

\* the duplicate test on the newsletter name alone
IsDuplicateNameOnly(list, newsletter_name, writer_name) ==
    \E k \in 1..Len(list) : newsletter_name = list[k].name

\* the loop of lines 146-149
IsDuplicate(list, newsletter_name, writer_name) ==
    \E k \in 1..Len(list) :
        newsletter_name = list[k].name /\ writer_name = list[k].writer_name

\* the dict of lines 156-166
Newsletter(newsletter_name, website_url, writer_name, category, publisher_name) ==
    [name |-> newsletter_name, url |-> website_url, rss_url |-> RssUrl(website_url),
     category |-> category, writer_name |-> writer_name,
     publisher |-> publisher_name, article_count |-> 0]

InitLoad ==
    /\ articles = <<>>
    /\ none_counts = {}
    /\ csv_file = <<>>
    /\ reuse_csv_data = FALSE
    /\ verbose = FALSE
    /\ use_daily_average = TRUE
    /\ normalize = TRUE
    /\ featured_count = 0
    /\ include_wildcards = 0
    /\ featured = <<>>
    /\ wildcards = <<>>
    /\ wildcard_pool = <<>>
    /\ num_wildcards = 0
    /\ i = 0
    /\ author_bound = FALSE
    /\ categorized = <<>>
    /\ pc = "load"
    /\ exception = "none"
    /\ InitEnv

\* the effect of _add_newsletter(newsletter_name, website_url, writer_name, ..)
DoAddNewsletter(newsletter_name, website_url, writer_name, category, publisher_name) ==
    /\ called' = <<newsletter_name, writer_name>>
    /\ IF IsDuplicate(newsletters, newsletter_name, writer_name)
       THEN /\ result' = "None"
            /\ UNCHANGED newsletters
       ELSE /\ newsletters' = Append(newsletters,
                                     Newsletter(newsletter_name, website_url,
                                                writer_name, category,
                                                publisher_name))
            /\ result' = "newsletter"

\* lines 131-171, called with any arguments
AddNewsletter ==
    /\ pc = "load"
    /\ Len(newsletters) < MaxNewsletters
    /\ \E newsletter_name \in NewsletterNames, website_url \in WebsiteUrls,
          writer_name \in WriterNamesGiven, extras \in RowExtras :
            DoAddNewsletter(newsletter_name, website_url, writer_name, extras[1],
                            extras[2])
    /\ UNCHANGED <<coreVars, retryVars, fetchVars, runVars>>

\* lines 174-192: a row of the newsletter CSV file; a row without a
\* website URL is skipped
ProcessNewsletter ==
    /\ pc = "load"
    /\ Len(newsletters) < MaxNewsletters
    /\ \E newsletter_name \in NewsletterNames, website_url \in WebsiteUrls,
          writer_name \in WriterNamesGiven, extras \in RowExtras :
            IF Len(Strip(website_url)) < 1
            THEN /\ result' = "None"
                 /\ called' = <<>>
                 /\ UNCHANGED newsletters
            ELSE DoAddNewsletter(Strip(newsletter_name), Strip(website_url),
                                 Strip(writer_name), Strip(extras[1]),
                                 Strip(extras[2]))
    /\ UNCHANGED <<coreVars, retryVars, fetchVars, runVars>>

NextLoad ==
    \/ AddNewsletter
    \/ ProcessNewsletter

SpecLoad == InitLoad /\ [][NextLoad]_vars

----------------------------------------------------------------------------
(* _api_call_retries *)

\* what one requests.get can do: answer 200, answer another status, raise
Outcomes == {"200", "429", "exception"}

\* the test with one request too many
StillTryingOnceMore(count, limit) == count <= limit + 1

\* retry_count <= max_retries, the test of lines 229 and 265
StillTrying(count, limit) == count <= limit

\* the delay grown by addition
NextDelayAdded(d) == d + API_RETRY_RAMPUP

\* delay *= API_RETRY_RAMPUP
NextDelay(d) == d * API_RETRY_RAMPUP

\* line 228 of a call with max_retries >= 0
InitRetry ==
    /\ articles = <<>>
    /\ none_counts = {}
    /\ csv_file = <<>>
    /\ reuse_csv_data = FALSE
    /\ verbose = FALSE
    /\ use_daily_average = TRUE
    /\ normalize = TRUE
    /\ featured_count = 0
    /\ include_wildcards = 0
    /\ featured = <<>>
    /\ wildcards = <<>>
    /\ wildcard_pool = <<>>
    /\ num_wildcards = 0
    /\ i = 0
    /\ author_bound = FALSE
    /\ categorized = <<>>
    /\ pc = "call"
    /\ exception = "none"
    /\ newsletters = <<>>
    /\ called = <<>>
    /\ result = "none"
    /\ max_retries \in 0..MaxRetries
    /\ retry_count = 0
    /\ delay = API_INITIAL_RETRY_DELAY
    /\ statuses = <<>>
    /\ sleeps = <<>>
    /\ InitFetchVars
    /\ InitRunVars

\* lines 229-273: one turn of the loop, the request with any outcome
ApiCallAttempt ==
    /\ pc = "call"
    /\ StillTrying(retry_count, max_retries)
    /\ \E outcome \in Outcomes :
        /\ statuses' = Append(statuses, outcome)
        /\ IF outcome = "200"
           THEN /\ result' = "response"
                /\ pc' = "returned"
                /\ UNCHANGED <<retry_count, delay, sleeps>>
           ELSE /\ retry_count' = retry_count + 1
                /\ IF StillTrying(retry_count + 1, max_retries)
                   THEN /\ sleeps' = Append(sleeps, delay)
                        /\ delay' = NextDelay(delay)
                        /\ UNCHANGED <<result, pc>>
                   ELSE /\ result' = "None"
                        /\ pc' = "returned"
                        /\ UNCHANGED <<delay, sleeps>>
    /\ UNCHANGED <<articles, none_counts, csv_file, reuse_csv_data, verbose,
                   use_daily_average, normalize, featured_count, include_wildcards,
                   featured, wildcards, wildcard_pool, num_wildcards, i,
                   author_bound, categorized, exception, newsletters, called,
                   max_retries, fetchVars, runVars>>

NextRetry == ApiCallAttempt

SpecRetry == InitRetry /\ [][NextRetry]_vars

\* the loop keeps running until it returns
SpecRetryFair == SpecRetry /\ WF_vars(NextRetry)

----------------------------------------------------------------------------
(* _fetch_articles *)

\* line 76
UNKNOWN_AUTHOR_DEFAULT == <<"U", "n", "k", "n", "o", "w", "n">>

\* str.lower() of one character
LowerChar(c) ==
    CASE c = "A" -> "a"
      [] c = "B" -> "b"
      [] c = "C" -> "c"
      [] c = "M" -> "m"
      [] c = "N" -> "n"
      [] c = "P" -> "p"
      [] c = "U" -> "u"
      [] OTHER -> c

\* str.lower()
Lower(s) == [k \in 1..Len(s) |-> LowerChar(s[k])]

\* s in t, for strings
IsInfix(s, t) ==
    \E k \in 0..Len(t) : k + Len(s) <= Len(t) /\ SubSeq(t, k + 1, k + Len(s)) = s

\* lines 291-300
CompareAuthorName(authors, writer_name) ==
    \E k \in 1..Len(authors) : IsInfix(Lower(writer_name), Lower(authors[k]))

\* lines 279-289
AuthorNewsletterCount(newsletter_name, authors, arts) ==
    Cardinality({k \in 1..Len(arts) :
                    /\ arts[k].newsletter_name = newsletter_name
                    /\ arts[k].authors = authors})

\* an entry of an RSS feed: its authors and author tags, the names in the
\* publishedBylines that the Substack API returns for the post (none when the
\* API is not used or has no bylines), its publication date ("none" without
\* a date, "old" before the cutoff date, "recent" otherwise), and whether
\* reading it raises an exception
Entry(authors, author, bylines, pub_date, broken) ==
    [authors |-> authors, author |-> author, bylines |-> bylines,
     pub_date |-> pub_date, broken |-> broken]

EntryKinds ==
    { Entry(<<<<"A">>>>, <<>>, <<>>, "recent", FALSE),
      Entry(<<>>, <<"B">>, <<>>, "recent", FALSE),
      Entry(<<<<"A">>>>, <<>>, <<<<"A">>, <<"B">>>>, "recent", FALSE),
      Entry(<<>>, <<>>, <<>>, "recent", FALSE),
      Entry(<<<<"A">>>>, <<>>, <<>>, "old", FALSE),
      Entry(<<<<"B">>>>, <<>>, <<>>, "none", FALSE),
      Entry(<<>>, <<>>, <<>>, "recent", TRUE) }

\* the feeds a newsletter may return; dc_creator matters only for an entry
\* without a byline
Feeds ==
    { [entries |-> es, dc_creator |-> c] :
        es \in SeqUpTo(EntryKinds, MaxEntries), c \in {<<>>} }
    \cup
    { [entries |-> es, dc_creator |-> <<"C">>] :
        es \in { s \in SeqUpTo(EntryKinds, MaxEntries) :
                    \E k \in 1..Len(s) :
                        /\ s[k].authors = <<>>
                        /\ s[k].author = <<>>
                        /\ ~s[k].broken } }

\* line 411 without the default name
UnknownAuthorPlain(name) == <<"(">> \o UNKNOWN_AUTHOR_DEFAULT \o <<")">>

\* line 411
UnknownAuthor(name) ==
    <<"(">> \o UNKNOWN_AUTHOR_DEFAULT \o <<" ", "a", "t", " ">> \o name \o <<")">>

\* lines 374-414: the authors found in the RSS feed
RssAuthors(entry, creator, newsletter) ==
    IF Len(entry.authors) > 0 THEN entry.authors
    ELSE IF Len(entry.author) > 0 THEN <<entry.author>>
    ELSE IF Len(creator) > 0 THEN <<creator>>
    ELSE IF Len(newsletter.publisher) > 0 THEN <<newsletter.publisher>>
    ELSE <<UnknownAuthor(newsletter.name)>>

\* lines 612-615 and 456: the bylines replace the authors
ApiAuthors(authors, entry) ==
    IF Len(entry.bylines) >= 1 THEN entry.bylines ELSE authors

\* lines 616-617: an empty writer_name becomes the first byline
ApiWriterName(writer_name, entry) ==
    IF Len(entry.bylines) >= 1 /\ Len(writer_name) = 0
    THEN entry.bylines[1] ELSE writer_name

\* line 481 without the limit
LimitReachedNever(newsletter_name, authors, arts, limit) == FALSE

\* line 481
LimitReached(newsletter_name, authors, arts, limit) ==
    limit # 0 /\ AuthorNewsletterCount(newsletter_name, authors, arts) >= limit

\* lines 466-470
WriterMatches(match, authors, writer_name) ==
    ~(match /\ Len(writer_name) > 0) \/ CompareAuthorName(authors, writer_name)

\* lines 357-487: what the loop body does with an entry
EntryOutcome(entry, authors, newsletter, arts) ==
    IF entry.broken THEN "raise"
    ELSE IF entry.pub_date = "none" THEN "continue"
    ELSE IF entry.pub_date = "old" THEN "continue"
    ELSE IF ~WriterMatches(match_authors, authors, newsletter.writer_name)
    THEN "continue"
    ELSE IF LimitReached(newsletter.name, authors, arts, max_per_author)
    THEN IF match_authors THEN "break" ELSE "continue"
    ELSE "append"

\* a step that returns instead of going on with the next newsletter
AfterFailureReturn == "fetched"

\* lines 347 and 533: continue with the next newsletter
AfterFailure == "next"

\* newsletter lists as _add_newsletter builds them: two newsletters without
\* writer and publisher, one of them with a writer and a publisher, and one
\* newsletter listed for two writers
NewsletterLists ==
    { << Newsletter(<<"N">>, <<"u">>, <<>>, <<"c", "1">>, <<>>),
         Newsletter(<<"M">>, <<"u">>, <<>>, <<"c", "2">>, <<>>) >>,
      << Newsletter(<<"N">>, <<"u">>, <<>>, <<"c", "1">>, <<>>),
         Newsletter(<<"M">>, <<"u">>, <<"a">>, <<"c", "2">>, <<"P">>) >>,
      << Newsletter(<<"N">>, <<"u">>, <<"A">>, <<"c", "1">>, <<>>),
         Newsletter(<<"N">>, <<"u">>, <<"B">>, <<"c", "1">>, <<>>) >> }

\* line 327, with the arguments of the call
InitFetch ==
    /\ articles = <<>>
    /\ none_counts = {}
    /\ csv_file = <<>>
    /\ reuse_csv_data = FALSE
    /\ verbose = FALSE
    /\ use_daily_average = TRUE
    /\ normalize = TRUE
    /\ featured_count = 0
    /\ include_wildcards = 0
    /\ featured = <<>>
    /\ wildcards = <<>>
    /\ wildcard_pool = <<>>
    /\ num_wildcards = 0
    /\ i = 0
    /\ author_bound = FALSE
    /\ categorized = <<>>
    /\ pc = "next"
    /\ exception = "none"
    /\ newsletters \in NewsletterLists
    /\ called = <<>>
    /\ result = "none"
    /\ max_retries = 0
    /\ retry_count = 0
    /\ delay = 0
    /\ statuses = <<>>
    /\ sleeps = <<>>
    /\ match_authors \in BOOLEAN
    /\ max_per_author \in 0..MaxPerAuthor
    /\ newsletter_i = 1
    /\ feed_all = NoFeed
    /\ entry_i = 0
    /\ article_count = 0
    /\ InitRunVars

\* lines 522 and 331: the entries are done, go on with the next newsletter
FinishNewsletter(count) ==
    /\ newsletters' = [newsletters EXCEPT ![newsletter_i].article_count = count]
    /\ newsletter_i' = newsletter_i + 1
    /\ feed_all' = NoFeed
    /\ entry_i' = 0

\* lines 331-353: the feed of the next newsletter is requested and parsed
FetchFeed ==
    /\ pc = "next"
    /\ newsletter_i <= Len(newsletters)
    /\ \/ /\ result' = "None"
          /\ pc' = AfterFailure
          /\ newsletter_i' = newsletter_i + 1
          /\ UNCHANGED <<newsletters, feed_all, entry_i, article_count>>
       \/ \E feed \in Feeds :
            /\ result' = "response"
            /\ article_count' = 0
            /\ IF Len(feed.entries) = 0
               THEN /\ FinishNewsletter(0)
                    /\ pc' = "next"
               ELSE /\ feed_all' = feed
                    /\ entry_i' = 1
                    /\ pc' = "entries"
                    /\ UNCHANGED <<newsletters, newsletter_i>>
    /\ UNCHANGED <<articles, match_authors, max_per_author>>
    /\ UNCHANGED <<none_counts, csv_file, reuse_csv_data, verbose, use_daily_average,
                   normalize, featured_count, include_wildcards, featured,
                   wildcards, wildcard_pool, num_wildcards, i, author_bound,
                   categorized, exception, called, retryVars, runVars>>

\* lines 355-533: the loop body for one entry of the feed
ProcessEntry ==
    /\ pc = "entries"
    /\ LET newsletter == newsletters[newsletter_i]
           entry == feed_all.entries[entry_i]
           authors == ApiAuthors(RssAuthors(entry, feed_all.dc_creator, newsletter),
                                 entry)
           article == Article(<<newsletter_i, entry_i>>, authors, newsletter.name,
                              newsletter.category,
                              ApiWriterName(newsletter.writer_name, entry),
                              0, 0, 0, 0, entry_i, R(0), R(0))
           outcome == EntryOutcome(entry, authors, newsletter, articles)
           count == IF outcome = "append" THEN article_count + 1 ELSE article_count
       IN  /\ articles' = IF outcome = "append" THEN Append(articles, article)
                          ELSE articles
           /\ article_count' = count
           /\ IF outcome = "raise"
              THEN /\ FinishNewsletter(-1)
                   /\ pc' = AfterFailure
              ELSE IF outcome = "break" \/ entry_i = Len(feed_all.entries)
              THEN /\ FinishNewsletter(count)
                   /\ pc' = "next"
              ELSE /\ entry_i' = entry_i + 1
                   /\ UNCHANGED <<newsletters, newsletter_i, feed_all, pc>>
    /\ UNCHANGED <<match_authors, max_per_author>>
    /\ UNCHANGED <<none_counts, csv_file, reuse_csv_data, verbose, use_daily_average,
                   normalize, featured_count, include_wildcards, featured,
                   wildcards, wildcard_pool, num_wildcards, i, author_bound,
                   categorized, exception, called, result, retryVars, runVars>>

\* lines 535-537
ReturnArticles ==
    /\ pc = "next"
    /\ newsletter_i > Len(newsletters)
    /\ pc' = "fetched"
    /\ UNCHANGED <<articles, none_counts, csv_file, reuse_csv_data, verbose,
                   use_daily_average, normalize, featured_count, include_wildcards,
                   featured, wildcards, wildcard_pool, num_wildcards, i,
                   author_bound, categorized, exception, envVars>>

NextFetch == FetchFeed \/ ProcessEntry \/ ReturnArticles

SpecFetch == InitFetch /\ [][NextFetch]_vars

----------------------------------------------------------------------------
(* main: get_configuration, then automated_digest *)

\* lines 1624-1635: open(output_file, 'w') creates the file or truncates
\* it; a file that cannot be opened is left alone
ValidateOutputFile(filename) ==
    IF filename \in writable
    THEN files' = [files EXCEPT ![filename] = "empty"]
    ELSE UNCHANGED files

\* a run of main with its arguments, before get_configuration validates
InitRun ==
    /\ articles = <<>>
    /\ none_counts = {}
    /\ csv_file = <<>>
    /\ reuse_csv_data \in BOOLEAN
    /\ verbose \in BOOLEAN
    /\ use_daily_average = TRUE
    /\ normalize = TRUE
    /\ featured_count = 0
    /\ include_wildcards = 0
    /\ featured = <<>>
    /\ wildcards = <<>>
    /\ wildcard_pool = <<>>
    /\ num_wildcards = 0
    /\ i = 0
    /\ author_bound = FALSE
    /\ categorized = <<>>
    /\ pc = "config"
    /\ exception = "none"
    /\ newsletters = <<>>
    /\ called = <<>>
    /\ result = "none"
    /\ max_retries = 0
    /\ retry_count = 0
    /\ delay = 0
    /\ statuses = <<>>
    /\ sleeps = <<>>
    /\ InitFetchVars
    /\ files \in [OutputFiles -> {"absent", "previous"}]
    /\ writable \in SUBSET OutputFiles
    /\ csv_digest_file \in {"", "csv_digest_file"}

\* lines 1793-1795: the digest page is validated
ValidateHtml ==
    /\ pc = "config"
    /\ ValidateOutputFile("output_file")
    /\ IF "output_file" \in writable
       THEN pc' = "html_validated" /\ UNCHANGED result
       ELSE pc' = "stopped" /\ result' = "-1"
    /\ UNCHANGED <<articles, none_counts, csv_file, reuse_csv_data, verbose,
                   use_daily_average, normalize, featured_count, include_wildcards,
                   featured, wildcards, wildcard_pool, num_wildcards, i,
                   author_bound, categorized, exception, newsletters, called,
                   retryVars, fetchVars, writable, csv_digest_file>>

\* lines 1797-1798: the article file is validated when one is asked for
ValidateCsv ==
    /\ pc = "html_validated"
    /\ IF Len(csv_digest_file) > 0
       THEN /\ ValidateOutputFile("csv_digest_file")
            /\ IF "csv_digest_file" \in writable
               THEN pc' = "configured" /\ UNCHANGED result
               ELSE pc' = "stopped" /\ result' = "-1"
       ELSE /\ pc' = "configured"
            /\ UNCHANGED <<files, result>>
    /\ UNCHANGED <<articles, none_counts, csv_file, reuse_csv_data, verbose,
                   use_daily_average, normalize, featured_count, include_wildcards,
                   featured, wildcards, wildcard_pool, num_wildcards, i,
                   author_bound, categorized, exception, newsletters, called,
                   retryVars, fetchVars, writable, csv_digest_file>>

\* lines 1484-1509: the run ends before anything is saved: the file to
\* reuse is unreadable or empty, the newsletter list is missing or empty,
\* or no article is found
AutomatedDigestAbort ==
    /\ pc = "configured"
    /\ IF reuse_csv_data
       THEN result' \in {"-1", "0"}
       ELSE result' = "-1"
    /\ pc' = "stopped"
    /\ UNCHANGED <<articles, none_counts, csv_file, reuse_csv_data, verbose,
                   use_daily_average, normalize, featured_count, include_wildcards,
                   featured, wildcards, wildcard_pool, num_wildcards, i,
                   author_bound, categorized, exception, newsletters, called,
                   retryVars, fetchVars, runVars>>

\* lines 1524-1541: the article file, when asked for, and the digest page
\* are written
AutomatedDigestSave ==
    /\ pc = "configured"
    /\ files' = [f \in OutputFiles |->
                    IF f = "output_file" \/ Len(csv_digest_file) > 0
                    THEN "digest" ELSE files[f]]
    /\ result' = "saved"
    /\ pc' = "saved"
    /\ UNCHANGED <<articles, none_counts, csv_file, reuse_csv_data, verbose,
                   use_daily_average, normalize, featured_count, include_wildcards,
                   featured, wildcards, wildcard_pool, num_wildcards, i,
                   author_bound, categorized, exception, newsletters, called,
                   retryVars, fetchVars, writable, csv_digest_file>>

NextRun == ValidateHtml \/ ValidateCsv \/ AutomatedDigestAbort \/ AutomatedDigestSave

SpecRun == InitRun /\ [][NextRun]_vars

\* main calls get_configuration and automated_digest one after the other,
\* and each of them returns, so a run goes on until it has saved or stopped
SpecRunFair == SpecRun /\ WF_vars(NextRun)

----------------------------------------------------------------------------
(* Properties of the selection *)

Done == pc = "done"

\* the identity of an article: (title, authors, newsletter name)
Key(a) == <<a.title, a.authors, a.newsletter_name>>

Keys(arts) == {Key(arts[k]) : k \in 1..Len(arts)}

RECURSIVE SumOfLengths(_, _)
SumOfLengths(f, S) ==
    IF S = {} THEN 0
    ELSE LET c == CHOOSE x \in S : TRUE
         IN  Len(f[c]) + SumOfLengths(f, S \ {c})

RECURSIVE Flatten(_, _)
Flatten(f, S) ==
    IF S = {} THEN <<>>
    ELSE LET c == CHOOSE x \in S : TRUE
         IN  f[c] \o Flatten(f, S \ {c})

\* the three buckets laid end to end
Partition == featured \o wildcards \o Flatten(categorized, DOMAIN categorized)

Copies(arts, key) == Cardinality({k \in 1..Len(arts) : Key(arts[k]) = key})

HasDuplicateKeys(arts) == \E j, k \in 1..Len(arts) : j < k /\ Key(arts[j]) = Key(arts[k])

FirstWithKey(arts, key) ==
    arts[CHOOSE k \in 1..Len(arts) :
            /\ Key(arts[k]) = key
            /\ \A j \in 1..(k - 1) : Key(arts[j]) # key]

\* C1 (as claimed): after selection the sizes of featured, wildcards and all
\* category lists add up to the number of articles of the collection after
\* deduplication by (title, authors, newsletter name).
C1_SizesAddUp ==
    Done =>
        Len(featured) + Len(wildcards) + SumOfLengths(categorized, DOMAIN categorized)
            = Cardinality(Keys(articles))

\* C2 (as claimed): after selection every article of the collection is in
\* exactly one bucket: its key occurs exactly once over featured, wildcards
\* and the category lists.
C2_ExactlyOneBucket ==
    Done => \A k \in 1..Len(articles) : Copies(Partition, Key(articles[k])) = 1

\* C3: no author name of a featured article is an author name of a wildcard
\* article, co-authors included, whatever the random choices were.
C3_Diversity ==
    \A f \in 1..Len(featured), w \in 1..Len(wildcards) :
        \A a \in 1..Len(featured[f].authors), b \in 1..Len(wildcards[w].authors) :
            featured[f].authors[a] # wildcards[w].authors[b]

\* a wildcard was picked although a co-authored article of a featured author
\* was outside the featured list
C3_Witness ==
    /\ Done /\ Len(featured) > 0 /\ Len(wildcards) > 0
    /\ \E k \in 1..Len(articles) :
        /\ Len(articles[k].authors) > 1
        /\ ~IsArticleIn(articles[k], featured)
        /\ \E f \in 1..Len(featured) : WrittenBy(articles[k], featured[f].authors[1])

\* C4 (as claimed): when two articles of the collection match on (title,
\* authors, newsletter name), whatever their other fields, the run yields a
\* partition holding exactly one copy of each article, and the copy kept is
\* the first occurrence.
C4_OneCopyTheFirst ==
    (pc \in {"done", "raised"} /\ HasDuplicateKeys(articles)) =>
        /\ Done
        /\ \A k \in 1..Len(articles) :
            /\ Copies(Partition, Key(articles[k])) = 1
            /\ \E p \in 1..Len(Partition) :
                   Partition[p] = FirstWithKey(articles, Key(articles[k]))

\* C5 (as claimed): the dedup, featured, wildcard and categorize steps never
\* raise, for every collection, every featured_count and wildcard_count >= 0
\* and either verbose setting.
C5_NeverRaises == pc # "raised" /\ exception = "none"

----------------------------------------------------------------------------
(* Properties of _score_articles *)

Scored == pc = "scored"

Idx == 1..Len(articles)

\* min(raw_score, 100) of one article
Cap100(a) == IF RLt(R(100), a.raw_score) THEN R(100) ELSE a.raw_score

\* the least and the greatest capped raw score of the collection
CapMin == CHOOSE m \in {Cap100(articles[k]) : k \in Idx} :
              \A k \in Idx : RLe(m, Cap100(articles[k]))

CapMax == CHOOSE m \in {Cap100(articles[k]) : k \in Idx} :
              \A k \in Idx : RLe(Cap100(articles[k]), m)

\* C6: after scoring a non-empty collection every score is <= 100 in both
\* scoring modes, with or without normalization, and with normalization on
\* every score lies in [1, 100].
C6_ScoreBounds ==
    Scored =>
        \A k \in Idx :
            /\ RLe(articles[k].score, R(100))
            /\ normalize => RLe(R(1), articles[k].score)

\* an outlier above 100 was capped and normalization spread the scores over
\* the whole scale
C6_Witness ==
    /\ Scored /\ normalize /\ Len(articles) >= 2
    /\ \E k \in Idx : RLt(R(100), articles[k].raw_score) /\ articles[k].score = R(100)
    /\ \E k \in Idx : articles[k].score = R(1)

\* C7 (as claimed): with normalization off every score equals
\* min(raw_score, 100), also for a single article and for equal raw scores.
C7_RawButCapped ==
    (Scored /\ ~normalize) => \A k \in Idx : articles[k].score = Cap100(articles[k])

\* C8: with normalization on, when the capped minimum equals the capped
\* maximum (all raw scores equal, or all >= 100), every score is exactly 50.
C8_DegenerateIsFifty ==
    (Scored /\ normalize /\ Len(articles) > 0 /\ CapMin = CapMax) =>
        \A k \in Idx : articles[k].score = R(50)

\* two different raw scores, both above 100, both scored 50
C8_Witness ==
    /\ Scored /\ normalize /\ Len(articles) >= 2
    /\ \A k \in Idx : RLe(R(100), articles[k].raw_score) /\ articles[k].score = R(50)
    /\ \E j, k \in Idx : articles[j].raw_score # articles[k].raw_score

\* the collection with every raw score above 100 replaced by exactly 100
ClampedTo100 == [k \in Idx |-> [articles[k] EXCEPT !.raw_score = Cap100(articles[k])]]

\* C9: with normalization on and capped minimum < capped maximum, each score
\* is ((min(raw,100) - min_score) / (max_score - min_score)) * 99 + 1 over the
\* capped minimum and maximum; the lowest article gets 1, every article with
\* raw_score >= 100 gets 100, and scoring the collection with its outliers
\* set to exactly 100 gives every article the same score.
C9_NormalizedFormula ==
    (Scored /\ normalize /\ Len(articles) > 0 /\ CapMin # CapMax) =>
        \A k \in Idx :
            /\ RMul(articles[k].score, RSub(CapMax, CapMin))
                  = RAdd(RMul(RSub(Cap100(articles[k]), CapMin), R(99)),
                         RSub(CapMax, CapMin))
            /\ Cap100(articles[k]) = CapMin => articles[k].score = R(1)
            /\ RLe(R(100), articles[k].raw_score) => articles[k].score = R(100)
            /\ WithScores(ClampedTo100, TRUE)[k].score = articles[k].score

\* an outlier above 100 next to an article strictly between the extremes
C9_Witness ==
    /\ Scored /\ normalize /\ Len(articles) = 3
    /\ \E k \in Idx : RLt(R(100), articles[k].raw_score)
    /\ \E k \in Idx : RLt(R(1), articles[k].score) /\ RLt(articles[k].score, R(100))

\* the example: raw scores 10, 50 and 200 (in ranked order), normalization on
Example10_50_200 ==
    /\ Scored /\ normalize
    /\ RawScores(articles) = <<R(200), R(50), R(10)>>

\* x rounded to one decimal place is n/10
RoundsTo(x, n) == RLe(Rat(10 * n - 5, 100), x) /\ RLt(x, Rat(10 * n + 5, 100))

\* C10 (as claimed): raw scores 10, 50, 200 with normalization on give capped
\* scores 10, 50, 100, min 10, max 100 and scores of about 1.0, 40.4 and 100.0.
C10_ExampleAsClaimed ==
    Example10_50_200 =>
        /\ <<Cap100(articles[3]), Cap100(articles[2]), Cap100(articles[1])>>
               = <<R(10), R(50), R(100)>>
        /\ CapMin = R(10) /\ CapMax = R(100)
        /\ RoundsTo(articles[3].score, 10)
        /\ RoundsTo(articles[2].score, 404)
        /\ RoundsTo(articles[1].score, 1000)

\* C10 (amended): raw scores 10, 50, 200 with normalization on give capped
\* scores 10, 50, 100, min 10, max 100 and scores 1.0, 45.0 and 100.0.
C10_ExampleAmended ==
    Example10_50_200 =>
        /\ <<Cap100(articles[3]), Cap100(articles[2]), Cap100(articles[1])>>
               = <<R(10), R(50), R(100)>>
        /\ MinScore(articles) = R(10) /\ MaxScore(articles) = R(100)
        /\ articles[3].score = R(1)
        /\ articles[2].score = R(45)
        /\ articles[1].score = R(100)

C10_Witness == Example10_50_200 /\ articles[2].score = R(45)

----------------------------------------------------------------------------
(* Properties of the raw score *)

\* E = reaction_count*1 + comment_count*2 + restack_count*3
WeightedEngagement(a) == a.reaction_count + 2 * a.comment_count + 3 * a.restack_count

\* d = 1 in standard mode, max(1, whole days since publication) otherwise
Divisor(a) == IF use_daily_average /\ a.age > 1 THEN a.age ELSE 1

----------------------------------------------------------------------------
(* Properties of the order after _score_articles *)

\* a step of _score_articles
ScoreStep == pc = "fetched" /\ pc' = "scored"

\* an article without the two fields that scoring writes
Unscore(a) == [a EXCEPT !.raw_score = R(0), !.score = R(0)]

WithoutScores(arts) == [k \in 1..Len(arts) |-> Unscore(arts[k])]

Occurrences(arts, x) == Cardinality({k \in 1..Len(arts) : arts[k] = x})

IsPermutation(s, t) ==
    /\ Len(s) = Len(t)
    /\ \A k \in 1..Len(s) : Occurrences(s, s[k]) = Occurrences(t, s[k])

NonIncreasingRaw(arts) ==
    \A k \in 1..(Len(arts) - 1) : RLe(arts[k + 1].raw_score, arts[k].raw_score)

\* C14: _score_articles leaves a permutation of the collection it was given,
\* ordered by non-increasing raw_score; articles tied at score 100 by the cap
\* are therefore still in the order of their raw scores.
C14_SortedPermutation ==
    [][ScoreStep =>
          /\ IsPermutation(WithoutScores(articles), WithoutScores(articles'))
          /\ NonIncreasingRaw(articles')]_vars

\* two articles capped to score 100, the one with the higher raw_score first
C14_Witness ==
    /\ Scored /\ Len(articles) = 3
    /\ articles[1].score = R(100) /\ articles[2].score = R(100)
    /\ RLt(articles[2].raw_score, articles[1].raw_score)
    /\ RLt(articles[3].score, R(100))

\* the articles of arts whose raw score is v, unscored, in their order
TiedAt(arts, v) == WithoutScores(SelectSeq(arts, LAMBDA a : a.raw_score = v))

\* C15: sorting the collection that _score_articles left is a no-op, articles
\* with equal raw_score are in the relative order they had before the call,
\* and scoring the result again in the same mode leaves the order unchanged.
C15_StableIdempotent ==
    [][ScoreStep =>
          /\ SortByRawScore(articles') = articles'
          /\ \A k \in 1..Len(articles') :
                TiedAt(articles', articles'[k].raw_score)
                    = TiedAt(WithRawScores(articles, use_daily_average'),
                             articles'[k].raw_score)
          /\ SortByRawScore(WithScores(WithRawScores(articles', use_daily_average'),
                                       normalize')) = articles']_vars

\* different articles with the same raw score next to each other
C15_Witness ==
    /\ Scored
    /\ \E k \in 1..(Len(articles) - 1) :
        /\ articles[k].raw_score = articles[k + 1].raw_score
        /\ Unscore(articles[k]) # Unscore(articles[k + 1])

----------------------------------------------------------------------------
(* Properties of the engagement counts *)

\* C13: a negative or None engagement count is treated as 0: the run never
\* ends in the TypeError of arithmetic on None, and no raw_score is below the
\* article's length component.
C13_CountsTreatedAsZero ==
    /\ exception # "TypeError"
    /\ Scored => \A k \in Idx : RLe(LengthScore(articles[k]), articles[k].raw_score)

----------------------------------------------------------------------------
(* Properties of the featured list and of the wildcard picks *)

\* the collection with the first occurrence of every key only
DeduplicatedByKey(arts) ==
    LET first == [k \in 1..Len(arts) |->
                     <<arts[k], \A j \in 1..(k - 1) : Key(arts[j]) # Key(arts[k])>>]
        kept == SelectSeq(first, LAMBDA e : e[2])
    IN  [k \in 1..Len(kept) |-> kept[k][1]]

FeaturedTaken == pc \in {"wildcards", "picking", "categorize", "done"}

\* C16 (as claimed): featured is the first min(featured_count, n) articles of
\* the collection deduplicated by (title, authors, newsletter name), n being
\* the size of that collection, in collection order.
C16_FeaturedIsTopOfDeduplicated ==
    FeaturedTaken =>
        featured = SubSeq(DeduplicatedByKey(articles), 1,
                          Min2(featured_count, Len(DeduplicatedByKey(articles))))

\* generate_digest_html is at work or has finished
Selecting == pc \in {"generate", "featured", "wildcards", "picking", "categorize", "done"}

ShareAuthor(a, b) ==
    \E j \in 1..Len(a.authors), k \in 1..Len(b.authors) :
        Strip(a.authors[j]) = Strip(b.authors[k])

\* R: the collection without every article by an author of a featured article
WithoutFeaturedAuthors ==
    SelectSeq(articles, LAMBDA a : \A f \in 1..Len(featured) : ~ShareAuthor(a, featured[f]))

\* min(10 * wildcard_count, |R|)
TopPoolSize ==
    IF 10 * include_wildcards < Len(WithoutFeaturedAuthors)
    THEN 10 * include_wildcards
    ELSE Len(WithoutFeaturedAuthors)

\* C18: every wildcard is one of the first min(10 * wildcard_count, |R|)
\* articles of R, the collection without the articles by featured authors,
\* whatever the random choices.
C18_WildcardsFromTopPool ==
    \A w \in 1..Len(wildcards) :
        \E k \in 1..TopPoolSize : WithoutFeaturedAuthors[k] = wildcards[w]

\* a wildcard was drawn while R is larger than the pool, and it is the last
\* article of the pool
C18_Witness ==
    /\ Done /\ Len(wildcards) = 1
    /\ TopPoolSize < Len(WithoutFeaturedAuthors)
    /\ wildcards[1] = WithoutFeaturedAuthors[TopPoolSize]

\* min(wildcard_count, floor(pool_size / 2)), pool_size being the size of the
\* pool before sampling
PickLimit ==
    IF include_wildcards < TopPoolSize \div 2 THEN include_wildcards
    ELSE TopPoolSize \div 2

\* C19: the number of wildcards returned is at most
\* min(wildcard_count, floor(pool_size / 2)); it is smaller only when the
\* pool ran empty; it is 0 when wildcard_count = 0 or the collection has no
\* more articles than the featured list.
C19_PickLimit ==
    Done =>
        /\ Len(wildcards) <= PickLimit
        /\ Len(wildcards) < PickLimit => Len(wildcard_pool) = 0
        /\ (include_wildcards = 0 \/ Len(articles) <= Len(featured)) => Len(wildcards) = 0

\* the pool ran empty after one pick although two were allowed
C19_Witness ==
    /\ Done /\ PickLimit = 2 /\ Len(wildcards) = 1 /\ Len(wildcard_pool) = 0

\* C20: the wildcards' author lists are pairwise disjoint, no article is
\* picked twice, and after each pick the pool holds neither the pick nor any
\* article with an author in common with a wildcard.
C20_DistinctAuthors ==
    /\ \A j, k \in 1..Len(wildcards) : j # k =>
            /\ ~ShareAuthor(wildcards[j], wildcards[k])
            /\ wildcards[j] # wildcards[k]
    /\ pc \in {"picking", "categorize", "done"} =>
            \A w \in 1..Len(wildcards), p \in 1..Len(wildcard_pool) :
                /\ wildcard_pool[p] # wildcards[w]
                /\ ~ShareAuthor(wildcard_pool[p], wildcards[w])

\* two wildcards were picked from a pool that held another article by the
\* author of the first
C20_Witness ==
    /\ Done /\ Len(wildcards) = 2 /\ Len(featured) = 0
    /\ \E k \in 1..Len(articles) :
            /\ articles[k] # wildcards[1]
            /\ ShareAuthor(articles[k], wildcards[1])

----------------------------------------------------------------------------
(* Properties of the categorized remainder *)

\* the articles of the collection that are in neither list, in collection order
NotSelected ==
    SelectSeq(articles, LAMBDA a : Key(a) \notin Keys(featured)
                                   /\ Key(a) \notin Keys(wildcards))

\* C21: every article that is neither featured nor a wildcard is in the
\* list of its own newsletter_category and in no other list, and each
\* category list holds exactly those articles in the order of the collection.
C21_CategorizedRemainder ==
    Done =>
        /\ \A k \in 1..Len(NotSelected) :
                NotSelected[k].newsletter_category \in DOMAIN categorized
        /\ \A c \in DOMAIN categorized :
                categorized[c] =
                    SelectSeq(NotSelected, LAMBDA a : a.newsletter_category = c)

\* a wildcard and two categories, one of them with two articles
C21_Witness ==
    /\ Done /\ Len(wildcards) > 0
    /\ Cardinality(DOMAIN categorized) = 2
    /\ \E c \in DOMAIN categorized : Len(categorized[c]) = 2

----------------------------------------------------------------------------
(* Properties of the newsletter list *)

Pair(newsletter) == <<newsletter.name, newsletter.writer_name>>

Pairs(list) == {Pair(list[k]) : k \in 1..Len(list)}

\* C22: no two entries of the newsletter list have the same (name,
\* writer_name) pair; a call of _add_newsletter with a pair that is in the
\* list returns None and leaves the list unchanged, and a call with a new
\* pair, the name being in the list or not, appends one entry with that pair.
C22_UniquePairs ==
    [][/\ \A j, k \in 1..Len(newsletters') :
              j # k => Pair(newsletters'[j]) # Pair(newsletters'[k])
       /\ called' # <<>> =>
              IF called' \in Pairs(newsletters)
              THEN newsletters' = newsletters /\ result' = "None"
              ELSE /\ Len(newsletters') = Len(newsletters) + 1
                   /\ SubSeq(newsletters', 1, Len(newsletters)) = newsletters
                   /\ Pair(newsletters'[Len(newsletters')]) = called'
                   /\ result' = "newsletter"]_vars

\* one name listed with two writer names, and a duplicate just refused
C22_Witness ==
    /\ Len(newsletters) = 2
    /\ newsletters[1].name = newsletters[2].name
    /\ newsletters[1].writer_name # newsletters[2].writer_name
    /\ called = Pair(newsletters[1]) /\ result = "None"

----------------------------------------------------------------------------
(* Properties of _api_call_retries *)

Returned == pc = "returned"

RequestsSafe ==
    /\ Len(statuses) <= max_retries + 1
    /\ \A k \in 1..(Len(statuses) - 1) : statuses[k] # "200"
    /\ Returned =>
        /\ Len(statuses) >= 1
        /\ max_retries = 0 => Len(statuses) = 1
        /\ result = "response" <=> statuses[Len(statuses)] = "200"
        /\ result = "None" <=>
              /\ Len(statuses) = max_retries + 1
              /\ \A k \in 1..Len(statuses) : statuses[k] # "200"

\* C26: _api_call_retries terminates after at least 1 and at most
\* max_retries + 1 requests; it returns the response of the first request
\* answered with 200 and requests nothing after it, and it returns None
\* exactly when all max_retries + 1 requests failed.
C26_TerminatesWithinRetries == []RequestsSafe /\ <>Returned

\* a response on the last request allowed, after failures of both kinds
C26_Witness ==
    /\ Returned /\ result = "response" /\ max_retries = 2 /\ Len(statuses) = 3
    /\ statuses[1] = "429" /\ statuses[2] = "exception"

RECURSIVE PowerOfTwo(_)
PowerOfTwo(n) == IF n = 0 THEN 1 ELSE 2 * PowerOfTwo(n - 1)

\* C27: the wait before the k-th retry is 2 * 2^(k-1) seconds; there is one
\* wait after each failed request that is followed by another request, and
\* none after the last failed request or after a successful one.
C27_ExponentialBackoff ==
    pc \in {"call", "returned"} =>
        /\ \A k \in 1..Len(sleeps) : sleeps[k] = 2 * PowerOfTwo(k - 1)
        /\ Len(sleeps) = IF Returned THEN Len(statuses) - 1 ELSE Len(statuses)

\* three waits, then the last request fails
C27_Witness ==
    /\ Returned /\ result = "None" /\ sleeps = <<2, 4, 8>> /\ Len(statuses) = 4

----------------------------------------------------------------------------
(* Properties of _fetch_articles *)

\* the entry that the loop body is about to process, and its authors
CurrentEntry == feed_all.entries[entry_i]

CurrentAuthors ==
    ApiAuthors(RssAuthors(CurrentEntry, feed_all.dc_creator,
                          newsletters[newsletter_i]), CurrentEntry)

\* the entry is dated in the window and passes the writer filter
CurrentPasses ==
    /\ pc = "entries"
    /\ ~CurrentEntry.broken
    /\ CurrentEntry.pub_date = "recent"
    /\ WriterMatches(match_authors, CurrentAuthors,
                     newsletters[newsletter_i].writer_name)

\* no (newsletter name, authors list) occurs more than max_per_author times
WithinLimit ==
    \A k \in 1..Len(articles) :
        AuthorNewsletterCount(articles[k].newsletter_name, articles[k].authors,
                              articles) <= max_per_author

\* with max_per_author = 0 every entry that passes is appended
NoLimitStep ==
    (max_per_author = 0 /\ CurrentPasses) => Len(articles') = Len(articles) + 1

\* C23: with max_per_author = k > 0 the articles fetched never hold more
\* than k articles with the same newsletter name and the same authors list,
\* counted across all newsletter entries and feed entries; with
\* max_per_author = 0 no entry is dropped for a limit.
C23_PerAuthorLimit == [](max_per_author > 0 => WithinLimit) /\ [][NoLimitStep]_vars

\* the limit drops an entry because of an article fetched for an earlier
\* newsletter entry of the same name
C23_Witness ==
    /\ CurrentPasses
    /\ max_per_author > 0
    /\ newsletter_i = 2
    /\ article_count = 0
    /\ newsletters[1].name = newsletters[2].name
    /\ LimitReached(newsletters[2].name, CurrentAuthors, articles, max_per_author)

\* the article carries the unknown-author name of its own newsletter
HasUnknownAuthor(a) == a.authors = <<UnknownAuthor(a.newsletter_name)>>

\* C24: every fetched article has a non-empty authors list, and two articles
\* of different newsletters that carry the unknown-author name have no
\* author in common, so neither excludes the other in the selection.
C24_AuthorsNeverEmpty ==
    /\ \A k \in 1..Len(articles) : Len(articles[k].authors) >= 1
    /\ \A j, k \in 1..Len(articles) :
          ( /\ articles[j].newsletter_name # articles[k].newsletter_name
            /\ HasUnknownAuthor(articles[j])
            /\ HasUnknownAuthor(articles[k]) )
          => ~ShareAuthor(articles[j], articles[k])

\* articles from every fallback: the unknown-author names of two
\* newsletters, a creator and bylines
C24_Witness ==
    /\ pc = "fetched"
    /\ \E j, k \in 1..Len(articles) :
          /\ articles[j].newsletter_name # articles[k].newsletter_name
          /\ HasUnknownAuthor(articles[j])
          /\ HasUnknownAuthor(articles[k])
    /\ \E k \in 1..Len(articles) : Len(articles[k].authors) = 2

\* the step fails for the current newsletter: no response to the feed
\* request, or an exception in the entry loop
FailingStep ==
    \/ pc = "next" /\ result' = "None" /\ newsletter_i' = newsletter_i + 1
    \/ pc = "entries" /\ CurrentEntry.broken

\* a failure leaves the articles fetched so far alone and goes on with the
\* next newsletter
FailureSkipsNewsletter ==
    FailingStep =>
        /\ articles' = articles
        /\ newsletter_i' = newsletter_i + 1
        /\ pc' = "next"

\* C25: the failure of one newsletter is not fatal: _fetch_articles raises
\* nothing, keeps the articles fetched so far, and continues with the next
\* newsletter.
C25_FailureNotFatal ==
    [](pc # "raised" /\ exception = "none") /\ [][FailureSkipsNewsletter]_vars

\* the first newsletter failed with an exception and an article of the
\* second one is returned
C25_Witness ==
    /\ pc = "fetched"
    /\ newsletters[1].article_count = -1
    /\ newsletters[2].article_count > 0
    /\ \E k \in 1..Len(articles) : articles[k].title[1] = 2

\* the authors of entry p of the current feed
AuthorsAt(p) ==
    ApiAuthors(RssAuthors(feed_all.entries[p], feed_all.dc_creator,
                          newsletters[newsletter_i]), feed_all.entries[p])

\* entry p of the current feed is dated in the window and passes the filter
PassesAt(p) ==
    /\ feed_all.entries[p].pub_date = "recent"
    /\ WriterMatches(match_authors, AuthorsAt(p),
                     newsletters[newsletter_i].writer_name)

\* the positions of the max_per_author most recent passing entries of each
\* authors list of the current feed
MostRecentPerAuthors ==
    { p \in 1..Len(feed_all.entries) :
        /\ PassesAt(p)
        /\ Cardinality({q \in 1..(p - 1) :
                           PassesAt(q) /\ AuthorsAt(q) = AuthorsAt(p)})
              < max_per_author }

\* the positions of the entries kept for newsletter n
KeptFor(n, arts) ==
    { arts[k].title[2] : k \in {j \in 1..Len(arts) : arts[j].title[1] = n} }

\* the entry loop of a newsletter ends without an exception
EntriesDone ==
    /\ pc = "entries"
    /\ pc' = "next"
    /\ newsletters'[newsletter_i].article_count >= 0

\* C29: with max_per_author = k > 0 the fetch keeps, for each newsletter
\* entry and each distinct authors list among the in-window entries that
\* pass the filter, the k most recent ones, with match_authors on or off.
C29_KeepsMostRecentPerAuthors ==
    [][(EntriesDone /\ max_per_author > 0)
          => KeptFor(newsletter_i, articles') = MostRecentPerAuthors]_vars

----------------------------------------------------------------------------
(* Properties of the validation of the output files *)

\* a file that holds an earlier output still holds it whenever the run has
\* stopped without saving
KeptWhenStopped(f) ==
    [](files[f] = "previous" => [](pc = "stopped" => files[f] = "previous"))

\* C30: a run that validates its output files and then ends before saving
\* leaves a digest page and an article file that existed before unchanged.
C30_AbortKeepsOutput ==
    KeptWhenStopped("output_file") /\ KeptWhenStopped("csv_digest_file")

----------------------------------------------------------------------------
(* Properties of the article file *)

\* the fields of an article that a second run uses to select
SelectionFields(a) ==
    <<a.title, a.newsletter_name, a.newsletter_category, a.authors,
      a.word_count, a.reaction_count, a.comment_count, a.restack_count,
      a.raw_score, a.score>>

\* the articles that _read_articles_from_csv makes of the rows
ReadBack(rows) == [k \in 1..Len(rows) |-> ArticleOfRow(rows[k])]

\* the step writes the article file
FileWritten == pc \in {"scored", "read"} /\ pc' = "generate" /\ csv_file' # csv_file

====
